---- MODULE Spec2Model ----
(***************************************************************************)
(* LinkedIn assistant: intent classification (openai_service.py), the      *)
(* profile / job fetch (linkedin_service_http.py), the response formatters *)
(* (openai_service.py) and the Telegram text-message handler               *)
(* (telegram_bot.py).                                                      *)
(*                                                                         *)
(* Texts are strings; the literals of the message templates are written in *)
(* ASCII.  Confidence is in tenths.                                        *)
(***************************************************************************)
EXTENDS Integers, Sequences, FiniteSets, TLC

VARIABLES
    pc,             \* position of the text-message handler
    pending,        \* text messages users have still to send
    queued,         \* text messages received and waiting for their handler
    user_message,   \* update.message.text of the message being handled
    response,       \* what client.chat.completions.create did for this message
    intent_result,  \* IntentResult returned by classify_intent
    profile_data,   \* dict returned by get_my_profile
    jobs_result,    \* jobs, the list returned by search_jobs
    exc,            \* exception in flight in the handler (NoExc when none)
    replies,        \* texts delivered to the user for this message, in order
    log,            \* logger / stdout records of this message, in order
    calls,          \* number of calls of each collaborator for this message
    fmt_pc,         \* formatter harness: "input", "jobs_done", "profile_done"
    fmt_jobs,       \* formatter harness: the jobs argument
    fmt_limit,      \* formatter harness: the limit argument
    fmt_profile,    \* formatter harness: the profile_data argument
    fmt_out,        \* formatter harness: response_parts of the last call
    svc_pc,         \* service harness: "input", "search_done", "profile_done"
    svc_args,       \* service harness: the arguments of search_jobs
    svc_outcome,    \* service harness: what requests.post did
    svc_query,      \* service harness: search_query as built by search_jobs
    svc_out         \* service harness: what the call returned or raised

botvars == <<pc, pending, queued, user_message, response, intent_result, profile_data,
             jobs_result, exc, replies, log, calls>>
fmtvars == <<fmt_pc, fmt_jobs, fmt_limit, fmt_profile, fmt_out>>
svcvars == <<svc_pc, svc_args, svc_outcome, svc_query, svc_out>>
vars == <<botvars, fmtvars, svcvars>>

----------------------------------------------------------------------------
(* Bounds *)

MaxMsgs == 2        \* text messages handled in one run
MaxJobs == 7        \* longest jobs list given to format_jobs_response
MaxLimit == 6       \* largest limit given to format_jobs_response
NegLimit == 2       \* limits go down to -NegLimit
ExtraChars == 2     \* texts run up to ExtraChars characters past a cut
MaxExperience == 4  \* longest experience list of a profile
MaxEducation == 3   \* longest education list of a profile

----------------------------------------------------------------------------
(* Python values.  Every value carries its type tag, so that values of     *)
(* different types are never compared field by field.                      *)

PyNone == [t |-> "none"]
Absent == [t |-> "absent"]          \* marks a key a dict does not have
PyStr(s) == [t |-> "str", s |-> s]
PyNum(n) == [t |-> "num", n |-> n]
PyBool(b) == [t |-> "bool", b |-> b]
PyList(l) == [t |-> "list", l |-> l]
PyDict(d) == [t |-> "dict", d |-> d]

\* bool(v)
Truthy(v) ==
    CASE v.t = "none" -> FALSE
      [] v.t = "str"  -> v.s # ""
      [] v.t = "num"  -> v.n # 0
      [] v.t = "bool" -> v.b
      [] v.t = "list" -> Len(v.l) > 0
      [] v.t = "dict" -> DOMAIN v.d # {}
      [] OTHER        -> TRUE

\* d.get(k, default) on the mapping of a dict value
Get(d, k, default) == IF k \in DOMAIN d THEN d[k] ELSE default

\* the dict holding exactly the entries of `all` that are not Absent
MkDict(all) ==
    LET keys == {k \in DOMAIN all : all[k].t # "absent"}
    IN  [k \in keys |-> all[k]]

Min(a, b) == IF a < b THEN a ELSE b
Max(a, b) == IF a > b THEN a ELSE b

\* s[:n] of Python, for any integer n
Slice(s, n) ==
    IF n >= 0 THEN SubSeq(s, 1, Min(n, Len(s)))
    ELSE SubSeq(s, 1, Max(Len(s) + n, 0))

----------------------------------------------------------------------------
(* Text operations of Python *)

RECURSIVE Repeat(_, _)
Repeat(s, n) == IF n <= 0 THEN "" ELSE s \o Repeat(s, n - 1)

\* a text of n characters
Chars(n) == SubSeq(Repeat("abcdefghij", (n \div 10) + 1), 1, n)

StartsWith(text, p) == Len(p) <= Len(text) /\ SubSeq(text, 1, Len(p)) = p
EndsWith(text, p) ==
    Len(p) <= Len(text) /\ SubSeq(text, Len(text) - Len(p) + 1, Len(text)) = p
Contains(text, sub) ==
    \E i \in 1..(Len(text) - Len(sub) + 1) : SubSeq(text, i, i + Len(sub) - 1) = sub

\* str(v)
Str(v) ==
    CASE v.t = "str"  -> v.s
      [] v.t = "num"  -> ToString(v.n)
      [] v.t = "bool" -> IF v.b THEN "True" ELSE "False"
      [] v.t = "none" -> "None"
      [] OTHER        -> "<" \o v.t \o ">"

UpperLetters == "ABCDEFGHIJKLMNOPQRSTUVWXYZ"
LowerLetters == "abcdefghijklmnopqrstuvwxyz"
LowerChar(c) ==
    LET at == {i \in 1..Len(UpperLetters) : SubSeq(UpperLetters, i, i) = c}
    IN  IF at = {} THEN c
        ELSE LET i == CHOOSE i \in at : TRUE IN SubSeq(LowerLetters, i, i)

\* text.lower()
RECURSIVE Lower(_)
Lower(text) ==
    IF text = "" THEN ""
    ELSE LowerChar(SubSeq(text, 1, 1)) \o Lower(SubSeq(text, 2, Len(text)))

IsSpace(c) == c \in {" ", "\n", "\t", "\r"}
RECURSIVE LStrip(_)
LStrip(text) ==
    IF text # "" /\ IsSpace(SubSeq(text, 1, 1))
    THEN LStrip(SubSeq(text, 2, Len(text))) ELSE text
RECURSIVE RStrip(_)
RStrip(text) ==
    IF text # "" /\ IsSpace(SubSeq(text, Len(text), Len(text)))
    THEN RStrip(SubSeq(text, 1, Len(text) - 1)) ELSE text
\* text.strip()
Strip(text) == RStrip(LStrip(text))

\* sep.join(parts)
RECURSIVE Join(_, _)
Join(sep, parts) ==
    IF Len(parts) = 0 THEN ""
    ELSE IF Len(parts) = 1 THEN parts[1]
    ELSE parts[1] \o sep \o Join(sep, Tail(parts))

\* the sequence made of f(x) for x in seq, in order
RECURSIVE Flatten(_)
Flatten(seqs) == IF Len(seqs) = 0 THEN <<>> ELSE Head(seqs) \o Flatten(Tail(seqs))

----------------------------------------------------------------------------
(* openai_service.py: intent classification *)

ErrorConfidence == 0        \* 0.0, the confidence of the failure path
FallbackConfidence == 5     \* 0.5, the confidence of the no-function-call path

\* str(e) of the exceptions that can be raised while a message is handled
ExcOpenAI == "APIConnectionError: Connection error."
ExcJson == "JSONDecodeError: Expecting value: line 1 column 1 (char 0)"
ExcNotDict == "AttributeError: 'list' object has no attribute 'get'"
ExcNotMapping == "TypeError: argument after ** must be a mapping, not str"
ExcValidation == "ValidationError: 1 validation error"
ExcRequests == "ConnectionError: HTTPSConnectionPool: Max retries exceeded"
ExcBody == "ValueError: response body is not JSON"
ExcFormat == "AttributeError: 'str' object has no attribute 'get'"
ExcSend == "NetworkError: httpx.ConnectError"
ExcNoneGet == "AttributeError: 'NoneType' object has no attribute 'get'"
ExcLower == "AttributeError: 'int' object has no attribute 'lower'"
ExcJoin == "TypeError: sequence item 0: expected str instance, int found"
ExcNotIterable == "TypeError: can only join an iterable"
ExcTexts == {ExcOpenAI, ExcJson, ExcNotDict, ExcNotMapping, ExcValidation,
             ExcRequests, ExcBody, ExcFormat, ExcSend, ExcNoneGet, ExcLower, ExcJoin,
             ExcNotIterable}
NoExc == ""

Ok(v) == [ok |-> TRUE, value |-> v, exc |-> NoExc]
Raise(e) == [ok |-> FALSE, value |-> PyNone, exc |-> e]

\* A str field of a pydantic model accepts a str only.
IsStr(v) == v.t = "str"
IsOptStr(v) == v.t \in {"none", "str"}
IsOptStrList(v) ==
    \/ v.t = "none"
    \/ v.t = "list" /\ \A i \in 1..Len(v.l) : v.l[i].t = "str"

\* JobSearchParams(**d): role is required, location and keywords default to None
JobSearchParams(d) ==
    LET role == Get(d, "role", Absent)
        location == Get(d, "location", PyNone)
        keywords == Get(d, "keywords", PyNone)
    IN  IF IsStr(role) /\ IsOptStr(location) /\ IsOptStrList(keywords)
        THEN Ok([t |-> "JobSearchParams", role |-> role.s,
                 location |-> location, keywords |-> keywords])
        ELSE Raise(ExcValidation)

\* IntentResult(**d): intent and confidence are required; job_params takes None,
\* a JobSearchParams or a dict that validates as one
IntentResult(d) ==
    LET intent == Get(d, "intent", Absent)
        confidence == Get(d, "confidence", Absent)
        jp == Get(d, "job_params", PyNone)
        params == CASE jp.t = "none" -> Ok(PyNone)
                    [] jp.t = "JobSearchParams" -> Ok(jp)
                    [] jp.t = "dict" -> JobSearchParams(jp.d)
                    [] OTHER -> Raise(ExcValidation)
    IN  IF IsStr(intent) /\ confidence.t = "num" /\ params.ok
        THEN Ok([intent |-> intent.s, confidence |-> confidence.n,
                 job_params |-> params.value])
        ELSE Raise(ExcValidation)

\* json.loads(text): the document the text spells, or JSONDecodeError
json_loads(text) ==
    IF text.json.t = "absent" THEN Raise(ExcJson) ELSE Ok(text.json)

\* the structured result built from the arguments of the function call
ParseArguments(arguments) ==
    LET loaded == json_loads(arguments)
    IN  IF ~loaded.ok THEN loaded
        ELSE IF loaded.value.t # "dict" THEN Raise(ExcNotDict)
        ELSE LET result_dict == loaded.value.d
                 jp == Get(result_dict, "job_params", PyNone)
             IN  IF Truthy(jp)
                 THEN IF jp.t # "dict" THEN Raise(ExcNotMapping)
                      ELSE LET conv == JobSearchParams(jp.d)
                           IN  IF ~conv.ok THEN conv
                               ELSE IntentResult(
                                   [result_dict EXCEPT !["job_params"] = conv.value])
                 ELSE IntentResult(result_dict)

\* the try block with the arguments parsed whenever there is a function call
ClassifyResponseAnyArguments(function_call) ==
    IF Truthy(function_call)
    THEN IF function_call.arguments.t = "str"
         THEN ParseArguments(function_call.arguments)
         ELSE Raise(ExcJson)
    ELSE Ok([intent |-> "UNKNOWN", confidence |-> FallbackConfidence,
             job_params |-> PyNone])

\* the body of the try block of classify_intent, after the model call returned
ClassifyResponse(function_call) ==
    IF Truthy(function_call) /\ Truthy(function_call.arguments)
    THEN ParseArguments(function_call.arguments)
    ELSE Ok([intent |-> "UNKNOWN", confidence |-> FallbackConfidence,
             job_params |-> PyNone])

\* What a call returns to its caller: a value, the lines it printed, and the
\* exception that left it (NoExc when it returned normally).
Returned(v, printed) == [result |-> v, printed |-> printed, raised |-> NoExc]
Propagated(e) == [result |-> PyNone, printed |-> <<>>, raised |-> e]

\* classify_intent with an except clause for the model call only
classify_intent_narrow_except(message, outcome) ==
    IF outcome.kind = "raise"
    THEN Returned([intent |-> "UNKNOWN", confidence |-> ErrorConfidence,
                   job_params |-> PyNone],
                  <<"Error in OpenAI classification: " \o outcome.exc>>)
    ELSE LET tried == ClassifyResponse(outcome.function_call)
         IN  IF tried.ok THEN Returned(tried.value, <<>>) ELSE Propagated(tried.exc)

\* classify_intent, for one outcome of the model call
classify_intent(message, outcome) ==
    LET tried == IF outcome.kind = "raise" THEN Raise(outcome.exc)
                 ELSE ClassifyResponse(outcome.function_call)
    IN  IF tried.ok
        THEN Returned(tried.value, <<>>)
        ELSE Returned([intent |-> "UNKNOWN", confidence |-> ErrorConfidence,
                       job_params |-> PyNone],
                      <<"Error in OpenAI classification: " \o tried.exc>>)

(* The outcomes of the model call that the handler is exercised with. *)

ArgText(s, doc) == [t |-> "str", s |-> s, json |-> doc]
FunctionCall(arguments) == [t |-> "FunctionCall", arguments |-> arguments]

IntentOpts == {Absent, PyStr("PROFILE"), PyStr("JOBS"), PyStr("UNKNOWN"),
               PyStr("GREETING")}
ConfidenceOpts == {Absent, PyStr("high"), PyNum(-2), PyNum(0), PyNum(5),
                   PyNum(9), PyNum(10), PyNum(17)}
JobParamOpts ==
    {Absent, PyNone, PyStr("Python Developer"), PyDict(<<>>),
     PyDict([role |-> PyStr("Python Developer")]),
     PyDict([role |-> PyStr("")]),
     PyDict([location |-> PyStr("Berlin")]),
     PyDict([role |-> PyStr("Frontend Developer"), location |-> PyStr("remote")]),
     PyDict([role |-> PyStr("Data Scientist"), location |-> PyStr("Berlin"),
             keywords |-> PyList(<<PyStr("ml"), PyStr("sql")>>)])}

ArgumentDocs ==
    {PyList(<<>>)} \cup
    {PyDict(MkDict([intent |-> i, confidence |-> c, job_params |-> j])) :
        i \in IntentOpts, c \in ConfidenceOpts, j \in JobParamOpts}

ModelOutcomes ==
    {[kind |-> "raise", exc |-> ExcOpenAI, function_call |-> PyNone]} \cup
    {[kind |-> "ok", exc |-> NoExc, function_call |-> f] :
        f \in {PyNone, FunctionCall(PyNone), FunctionCall(ArgText("", Absent)),
               FunctionCall(ArgText("I cannot help with that", Absent))}
              \cup {FunctionCall(ArgText("json", doc)) : doc \in ArgumentDocs}}

----------------------------------------------------------------------------
(* openai_service.py: response formatters *)

SummaryCut == 300           \* summary[:300]
ExperienceShown == 3        \* experience[:3]
EducationShown == 2         \* education[:2]
DescriptionCut == 150       \* description[:150]
DefaultLimit == 5           \* limit: int = 5

ProfileHeader == "[profile] Your LinkedIn profile:\n"
SummaryLabel == "\n[about] About me:\n"
Ellipsis == "..."
NoJobsText == "[sad] No suitable vacancies were found for your request. Try changing the search parameters."
JobsHint == "\n[hint] To see more vacancies, refine the request (for example, add a location or skills)."

\* one line of the experience section; exp.get raises unless exp is a dict
ExperienceLine(e) ==
    IF e.t # "dict" THEN Raise(ExcFormat)
    ELSE Ok("* " \o Str(Get(e.d, "title", PyStr(""))) \o " at "
            \o Str(Get(e.d, "companyName", PyStr(""))) \o " ("
            \o Str(Get(e.d, "duration", PyStr(""))) \o ")")

\* one line of the education section
EducationLine(e) ==
    IF e.t # "dict" THEN Raise(ExcFormat)
    ELSE Ok(Strip("* "
            \o Str(Get(e.d, "schoolName", Get(e.d, "school", PyStr("")))) \o ": "
            \o Str(Get(e.d, "degree", PyStr(""))) \o " "
            \o Str(Get(e.d, "fieldOfStudy", PyStr("")))))

\* the summary part with the marker only when characters were cut off
SummaryPartMarkedWhenCut(summary) ==
    SummaryLabel \o Slice(summary, SummaryCut)
    \o (IF Len(summary) > SummaryCut THEN Ellipsis ELSE "") \o "\n"

\* the part appended for the summary
SummaryPart(summary) == SummaryLabel \o Slice(summary, SummaryCut) \o Ellipsis \o "\n"

\* format_profile_response(profile_data): the text, or the exception raised
format_profile_response(pd) ==
    LET headline == Get(pd, "headline", PyNone)
        summary == Get(pd, "summary", PyNone)
        experience == Get(pd, "experience", PyNone)
        education == Get(pd, "education", PyNone)
        exps == IF Truthy(experience)
                THEN LET shown == Slice(experience.l, ExperienceShown)
                     IN  [i \in 1..Len(shown) |-> ExperienceLine(shown[i])]
                ELSE <<>>
        edus == IF Truthy(education)
                THEN LET shown == Slice(education.l, EducationShown)
                     IN  [i \in 1..Len(shown) |-> EducationLine(shown[i])]
                ELSE <<>>
        response_parts ==
            <<ProfileHeader>>
            \o (IF Truthy(headline) THEN <<"[target] " \o Str(headline) \o "\n">> ELSE <<>>)
            \o (IF Truthy(summary) THEN <<SummaryPart(summary.s)>> ELSE <<>>)
            \o (IF Truthy(experience)
                THEN <<"\n[work] Experience:">> \o [i \in 1..Len(exps) |-> exps[i].value]
                ELSE <<>>)
            \o (IF Truthy(education)
                THEN <<"\n\n[school] Education:">> \o [i \in 1..Len(edus) |-> edus[i].value]
                ELSE <<>>)
    IN  IF \E i \in 1..Len(exps) : ~exps[i].ok THEN Raise(ExcFormat)
        ELSE IF \E i \in 1..Len(edus) : ~edus[i].ok THEN Raise(ExcFormat)
        ELSE Ok(Join("\n", response_parts))

\* jobs[:limit], the listings an entry is rendered for
ShownJobs(jobs, limit) == Slice(jobs, limit)

\* the note put in when there are more listings than limit
CountNote(jobs, limit) ==
    "Showing the first " \o ToString(limit) \o " of " \o ToString(Len(jobs)) \o ":\n"

\* an entry in which a listing without url still gets a link line
JobEntryLinkAlways(idx, job) ==
    LET title == Get(job.d, "title", PyStr("Untitled"))
        company == Get(job.d, "company", PyStr("Company not specified"))
        location == Get(job.d, "location", PyStr("Location not specified"))
        job_type == Get(job.d, "type", PyStr(""))
        url == Get(job.d, "url", PyStr("No link"))
        description == Get(job.d, "description", PyNone)
    IN  <<ToString(idx) \o ". [job] " \o Str(title),
          "   Company: " \o Str(company),
          "   [pin] " \o Str(location)>>
        \o (IF Truthy(job_type) THEN <<"   [time] " \o Str(job_type)>> ELSE <<>>)
        \o (IF Truthy(description)
            THEN <<"   [doc] " \o Strip(Slice(description.s, DescriptionCut)) \o Ellipsis>>
            ELSE <<>>)
        \o (IF Truthy(url) THEN <<"   [link] " \o Str(url)>> ELSE <<>>)
        \o <<"">>

\* the response parts of one listing, numbered idx
JobEntry(idx, job) ==
    LET title == Get(job.d, "title", PyStr("Untitled"))
        company == Get(job.d, "company", PyStr("Company not specified"))
        location == Get(job.d, "location", PyStr("Location not specified"))
        job_type == Get(job.d, "type", PyStr(""))
        url == Get(job.d, "url", PyStr(""))
        description == Get(job.d, "description", PyNone)
    IN  <<ToString(idx) \o ". [job] " \o Str(title),
          "   Company: " \o Str(company),
          "   [pin] " \o Str(location)>>
        \o (IF Truthy(job_type) THEN <<"   [time] " \o Str(job_type)>> ELSE <<>>)
        \o (IF Truthy(description)
            THEN <<"   [doc] " \o Strip(Slice(description.s, DescriptionCut)) \o Ellipsis>>
            ELSE <<>>)
        \o (IF Truthy(url) THEN <<"   [link] " \o Str(url)>> ELSE <<>>)
        \o <<"">>

\* response parts with the count note put after the entries instead
JobsResponsePartsNoteLast(jobs, limit) ==
    LET shown == ShownJobs(jobs, limit)
    IN  <<"[work] Vacancies found: " \o ToString(Len(jobs)) \o "\n">>
        \o Flatten([i \in 1..Len(shown) |-> JobEntry(i, shown[i])])
        \o (IF Len(jobs) > limit THEN <<CountNote(jobs, limit), JobsHint>> ELSE <<>>)

\* response_parts of format_jobs_response for a non-empty jobs list
JobsResponseParts(jobs, limit) ==
    LET shown == ShownJobs(jobs, limit)
    IN  <<"[work] Vacancies found: " \o ToString(Len(jobs)) \o "\n">>
        \o (IF Len(jobs) > limit THEN <<CountNote(jobs, limit)>> ELSE <<>>)
        \o Flatten([i \in 1..Len(shown) |-> JobEntry(i, shown[i])])
        \o (IF Len(jobs) > limit THEN <<JobsHint>> ELSE <<>>)

\* format_jobs_response(jobs, limit)
format_jobs_response(jobs, limit) ==
    IF Len(jobs) = 0 THEN NoJobsText
    ELSE Join("\n", JobsResponseParts(jobs, limit))

----------------------------------------------------------------------------
(* linkedin_service_http.py: profile and job fetch *)

\* What requests.post did: it raised (cls is the exception's class), or it
\* returned a response with a status code, a body text and the document the
\* body spells (Absent when the body is not JSON; cls is then the class of the
\* error response.json() raises, which depends on the requests version).
HttpRaise(cls, e) ==
    [kind |-> "raise", cls |-> cls, exc |-> e, status_code |-> 0, text |-> "",
     json |-> Absent]
HttpResponse(status_code, text, doc) ==
    [kind |-> "response", cls |-> "", exc |-> NoExc, status_code |-> status_code,
     text |-> text, json |-> doc]
HttpNotJson(cls) ==
    [kind |-> "response", cls |-> cls, exc |-> ExcBody, status_code |-> 200,
     text |-> "<html>Bad Gateway</html>", json |-> Absent]

\* the result get_my_profile returns when the fetch did not succeed
ProfileFailure(error) ==
    [error |-> error, headline |-> PyStr(""), summary |-> PyStr(""),
     experience |-> PyList(<<>>), education |-> PyList(<<>>)]

\* the two except clauses of get_my_profile
ProfileExcept(cls, e) ==
    IF cls = "RequestException"
    THEN ProfileFailure(PyStr("Network error: " \o e))
    ELSE ProfileFailure(PyStr("Unexpected error: " \o e))

\* get_my_profile(), for one outcome of the HTTP call
get_my_profile(outcome) ==
    IF outcome.kind = "raise" THEN ProfileExcept(outcome.cls, outcome.exc)
    ELSE IF outcome.status_code = 200
    THEN IF outcome.json.t = "absent" THEN ProfileExcept(outcome.cls, outcome.exc)
         ELSE IF outcome.json.t # "dict" THEN ProfileExcept("AttributeError", ExcNotDict)
         ELSE LET data == outcome.json.d
              IN  IF Truthy(Get(data, "success", PyNone))
                  THEN LET profile == Get(data, "profile", PyDict(<<>>))
                       IN  IF profile.t # "dict"
                           THEN ProfileExcept("AttributeError", ExcNoneGet)
                           ELSE [headline |-> Get(profile.d, "headline", PyStr("")),
                                 summary |-> Get(profile.d, "summary", PyStr("")),
                                 experience |-> Get(profile.d, "experience", PyList(<<>>)),
                                 education |-> Get(profile.d, "education", PyList(<<>>))]
                  ELSE ProfileFailure(Get(data, "error", PyStr("Failed to fetch profile")))
    ELSE ProfileFailure(PyStr("HTTP " \o ToString(outcome.status_code) \o ": "
                              \o outcome.text))

\* ', '.join(keywords): keywords is a list or a str (joined character by
\* character); any other value is not iterable.  A dict is not modelled.
JoinKeywords(keywords) ==
    CASE keywords.t = "list" ->
            IF \A i \in 1..Len(keywords.l) : keywords.l[i].t = "str"
            THEN Ok(Join(", ", [i \in 1..Len(keywords.l) |-> keywords.l[i].s]))
            ELSE Raise(ExcJoin)
      [] keywords.t = "str" ->
            Ok(Join(", ", [i \in 1..Len(keywords.s) |-> SubSeq(keywords.s, i, i)]))
      [] OTHER -> Raise(ExcNotIterable)

\* the part of search_query that location adds, compared as written
LocationPartCaseSensitive(location) ==
    IF Truthy(location)
    THEN IF location.t # "str" THEN Raise(ExcLower)
         ELSE IF location.s = "remote"
         THEN Ok(<<"with the option of remote work">>)
         ELSE Ok(<<"in location " \o location.s>>)
    ELSE Ok(<<>>)

\* the part of search_query that location adds
LocationPart(location) ==
    IF Truthy(location)
    THEN IF location.t # "str" THEN Raise(ExcLower)
         ELSE IF Lower(location.s) = "remote"
         THEN Ok(<<"with the option of remote work">>)
         ELSE Ok(<<"in location " \o location.s>>)
    ELSE Ok(<<>>)

\* search_query of search_jobs, or the exception building it raises
SearchQuery(query, location, keywords) ==
    LET where == LocationPart(location)
        skills == IF Truthy(keywords) THEN JoinKeywords(keywords) ELSE Ok("")
    IN  IF ~where.ok THEN Raise(where.exc)
        ELSE IF ~skills.ok THEN Raise(skills.exc)
        ELSE Ok(Join(" ",
                <<"Find vacancies for the position " \o Str(query)>>
                \o where.value
                \o (IF Truthy(keywords) THEN <<"with skills: " \o skills.value>>
                    ELSE <<>>)))

\* the single informational listing search_jobs builds from a reply
ReplyJob(query, location, reply) ==
    PyDict([title |-> PyStr("Search results: " \o Str(query)),
            company |-> PyStr("LinkedIn"),
            location |-> IF Truthy(location) THEN location ELSE PyStr("Not specified"),
            type |-> PyStr("Information from the profile"),
            description |-> PyStr(Str(reply)),
            url |-> PyStr("https://www.linkedin.com/jobs/")])

\* what search_jobs does once search_query is built, for one outcome of the
\* HTTP call
SearchReturn(query, location, outcome) ==
    LET Failed(e) == Returned(<<>>, <<"Error searching jobs: " \o e>>)
    IN  IF outcome.kind = "raise" THEN Failed(outcome.exc)
        ELSE IF outcome.status_code = 200
        THEN IF outcome.json.t = "absent" THEN Failed(outcome.exc)
             ELSE IF outcome.json.t # "dict" THEN Failed(ExcNotDict)
             ELSE LET reply == Get(outcome.json.d, "reply", PyNone)
                  IN  IF Truthy(reply)
                      THEN Returned(<<ReplyJob(query, location, reply)>>, <<>>)
                      ELSE Returned(<<>>, <<>>)
        ELSE Returned(<<>>, <<>>)

\* search_jobs with search_query built before the try block is entered
search_jobs_query_outside_try(query, location, keywords, outcome) ==
    LET search_query == SearchQuery(query, location, keywords)
    IN  IF ~search_query.ok THEN Propagated(search_query.exc)
        ELSE SearchReturn(query, location, outcome)

\* search_jobs(query, location, keywords), for one outcome of the HTTP call
search_jobs(query, location, keywords, outcome) ==
    LET search_query == SearchQuery(query, location, keywords)
    IN  IF ~search_query.ok
        THEN Returned(<<>>, <<"Error searching jobs: " \o search_query.exc>>)
        ELSE SearchReturn(query, location, outcome)

----------------------------------------------------------------------------
(* The arguments the formatters are called with directly, and the harness *)
(* that calls them.                                                       *)

FullJob(k) ==
    PyDict([title |-> PyStr("T" \o ToString(k)), company |-> PyStr("Acme"),
            location |-> PyStr("Berlin"), type |-> PyStr("Full-time"),
            description |-> PyStr("  Build data pipelines. "),
            url |-> PyStr("https://www.linkedin.com/jobs/view/" \o ToString(k))])
SparseJob(k) ==
    PyDict([title |-> PyStr("T" \o ToString(k)),
            description |-> PyStr(Chars(DescriptionCut + ExtraChars))])
BareJob == PyDict(<<>>)

\* the six keys format_jobs_response reads from a listing
JobFields == {"title", "company", "location", "type", "description", "url"}
\* a listing that has every key except those in missing
JobWithout(missing) == PyDict([f \in JobFields \ missing |-> FullJob(1).d[f]])

JobPatterns == {"full", "mixed", "bare"}
JobList(n, pattern) ==
    [k \in 1..n |->
        CASE pattern = "full" -> FullJob(k)
          [] pattern = "mixed" -> IF k % 2 = 1 THEN SparseJob(k) ELSE FullJob(k)
          [] OTHER -> BareJob]
JobLists ==
    {JobList(n, p) : n \in 0..MaxJobs, p \in JobPatterns}
    \cup {<<JobWithout(m)>> : m \in SUBSET JobFields}
    \cup {<<FullJob(1), JobWithout(m)>> : m \in SUBSET JobFields}
Limits == (0 - NegLimit)..MaxLimit

ExperienceEntry(k) ==
    PyDict([title |-> PyStr("Engineer " \o ToString(k)),
            companyName |-> PyStr("Acme"), duration |-> PyStr("2 yrs")])
EducationEntry(k) ==
    PyDict([schoolName |-> PyStr("School " \o ToString(k)),
            degree |-> PyStr("MSc"), fieldOfStudy |-> PyStr("CS")])
SummaryLengths ==
    {0, 1, SummaryCut - 1, SummaryCut} \cup (SummaryCut + 1)..(SummaryCut + ExtraChars)
HeadlineOpts == {Absent, PyStr(""), PyStr("Data Engineer")}
SummaryOpts == {Absent, PyNone} \cup {PyStr(Chars(n)) : n \in SummaryLengths}
ExperienceOpts ==
    {Absent, PyList(<<PyStr("Engineer at Acme")>>)}
    \cup {PyList([k \in 1..n |-> ExperienceEntry(k)]) : n \in 0..MaxExperience}
EducationOpts ==
    {Absent} \cup {PyList([k \in 1..n |-> EducationEntry(k)]) : n \in 0..MaxEducation}
Profiles ==
    {MkDict([headline |-> h, summary |-> s, experience |-> x, education |-> e]) :
        h \in HeadlineOpts, s \in SummaryOpts, x \in ExperienceOpts, e \in EducationOpts}

(* The outcomes of the HTTP calls that the handler is exercised with. *)

ProfileDocs ==
    {PyDict([headline |-> PyStr("Data Engineer"), summary |-> PyStr("Builds pipelines."),
             experience |-> PyList(<<ExperienceEntry(1)>>),
             education |-> PyList(<<EducationEntry(1)>>)]),
     PyDict([summary |-> PyStr(Chars(SummaryCut + ExtraChars)),
             experience |-> PyList([k \in 1..MaxExperience |-> ExperienceEntry(k)])]),
     PyDict([headline |-> PyStr("Data Engineer"),
             experience |-> PyList(<<PyStr("Engineer at Acme")>>)]),
     PyDict(<<>>), PyNone}

ProfileOutcomes ==
    {HttpRaise("RequestException", ExcRequests), HttpRaise("Exception", ExcBody),
     HttpNotJson("RequestException"), HttpNotJson("ValueError"),
     HttpResponse(500, "Internal Server Error", Absent),
     HttpResponse(200, "[]", PyList(<<>>)),
     HttpResponse(200, "{}", PyDict(<<>>)),
     HttpResponse(200, "{..}", PyDict([success |-> PyBool(TRUE)]))}
    \cup {HttpResponse(200, "{..}", PyDict([success |-> PyBool(TRUE), profile |-> p])) :
            p \in ProfileDocs}
    \cup {HttpResponse(200, "{..}", PyDict([success |-> PyBool(FALSE), error |-> e])) :
            e \in {PyStr("LinkedIn URL is not set"), PyStr(""), PyNone}}

JobsOutcomes ==
    {HttpRaise("RequestException", ExcRequests),
     HttpNotJson("RequestException"),
     HttpResponse(500, "Internal Server Error", Absent),
     HttpResponse(200, "[]", PyList(<<>>)),
     HttpResponse(200, "{}", PyDict(<<>>))}
    \cup {HttpResponse(200, "{..}", PyDict([reply |-> r])) :
            r \in {PyStr(""), PyStr("3 roles match your profile."),
                   PyStr(Chars(DescriptionCut + ExtraChars))}}

FmtInit ==
    /\ fmt_pc = "input"
    /\ fmt_jobs = <<>>
    /\ fmt_limit = DefaultLimit
    /\ fmt_profile = <<>>
    /\ fmt_out = Ok("")

\* format_jobs_response(jobs) is called, limit taking its default
CallFormatJobsDefault ==
    /\ fmt_pc = "input"
    /\ \E j \in JobLists :
        /\ fmt_jobs' = j
        /\ fmt_out' = Ok(format_jobs_response(j, DefaultLimit))
    /\ fmt_limit' = DefaultLimit
    /\ fmt_pc' = "jobs_done"
    /\ UNCHANGED fmt_profile

\* format_jobs_response(jobs, limit) is called
CallFormatJobs ==
    /\ fmt_pc = "input"
    /\ \E j \in JobLists, l \in Limits \ {DefaultLimit} :
        /\ fmt_jobs' = j
        /\ fmt_limit' = l
        /\ fmt_out' = Ok(format_jobs_response(j, l))
    /\ fmt_pc' = "jobs_done"
    /\ UNCHANGED fmt_profile

\* format_profile_response(profile_data) is called
CallFormatProfile ==
    /\ fmt_pc = "input"
    /\ \E p \in Profiles :
        /\ fmt_profile' = p
        /\ fmt_out' = format_profile_response(p)
    /\ fmt_pc' = "profile_done"
    /\ UNCHANGED <<fmt_jobs, fmt_limit>>

(* The arguments the service is called with directly (main.py passes     *)
(* on whatever the request body holds), and the harness that calls it.   *)

SearchRoles == {PyStr("Python Developer"), PyStr(""), PyNone}
SearchLocations ==
    {PyNone, PyStr(""), PyStr("remote"), PyStr("Remote"), PyStr("REMOTE"),
     PyStr("rEmOtE"), PyStr("Berlin"), PyStr("remotely"), PyStr(" remote"), PyNum(7)}
SearchKeywords ==
    {PyNone, PyList(<<>>), PyList(<<PyStr("python")>>),
     PyList(<<PyStr("python"), PyStr("sql")>>), PyList(<<PyStr("python"), PyNum(3)>>),
     PyStr("sql"), PyNum(5)}

SvcInit ==
    /\ svc_pc = "input"
    /\ svc_args = [query |-> PyNone, location |-> PyNone, keywords |-> PyNone]
    /\ svc_outcome = HttpResponse(200, "{}", PyDict(<<>>))
    /\ svc_query = Ok("")
    /\ svc_out = Returned(<<>>, <<>>)

\* search_jobs(query, location, keywords) is called
CallSearchJobs ==
    /\ svc_pc = "input"
    /\ \E q \in SearchRoles, l \in SearchLocations, k \in SearchKeywords,
          outcome \in JobsOutcomes :
        /\ svc_args' = [query |-> q, location |-> l, keywords |-> k]
        /\ svc_outcome' = outcome
        /\ svc_query' = SearchQuery(q, l, k)
        /\ svc_out' = search_jobs(q, l, k, outcome)
    /\ svc_pc' = "search_done"

\* get_my_profile() is called
CallGetMyProfile ==
    /\ svc_pc = "input"
    /\ \E outcome \in ProfileOutcomes :
        /\ svc_outcome' = outcome
        /\ svc_out' = Returned(get_my_profile(outcome), <<>>)
    /\ svc_pc' = "profile_done"
    /\ UNCHANGED <<svc_args, svc_query>>

BotIdle ==
    /\ pc = "idle"
    /\ pending = MaxMsgs
    /\ queued = 0
    /\ user_message = ""
    /\ response = [kind |-> "none", exc |-> NoExc, function_call |-> PyNone]
    /\ intent_result = PyNone
    /\ profile_data = <<>>
    /\ jobs_result = <<>>
    /\ exc = NoExc
    /\ replies = <<>>
    /\ log = <<>>
    /\ calls = [classify_intent |-> 0, get_my_profile |-> 0, search_jobs |-> 0]

----------------------------------------------------------------------------
(* telegram_bot.py: the handler of text messages *)

ProgressProfileText == "[search] Fetching information about your profile..."
ProfileFailedText ==
    "[x] Could not get the profile. Check the LinkedIn connection settings."
ClarifyText ==
    "[think] I cannot tell which vacancy you are looking for. Please give a position or role.\n\nFor example: 'Find Python developer vacancies'"
JobsFailedText == "[x] Could not run the vacancy search. Try again later."
UnknownText ==
    "[shrug] Sorry, so far I can only:\n\n[profile] Show information about your LinkedIn profile\n[work] Search vacancies on LinkedIn\n\nPlease rephrase your request."
ApologyText ==
    "[sad] Sorry, an error occurred while processing your request. Please try again later."

\* the reply sent when profile_data carries an error
ProfileErrorText(pd) ==
    "[x] Could not get the profile: " \o Str(pd["error"]) \o "\n\n"
    \o "Make sure you have set the LinkedIn URL with the set_linkedin_url command."

\* search_text of _handle_jobs_request, with the dots added when it is sent
SearchText(job_params) ==
    "[search] Searching vacancies: " \o job_params.role
    \o (IF Truthy(job_params.location) THEN " (" \o job_params.location.s \o ")" ELSE "")
    \o "..."

\* str() of a confidence
FloatText(c) ==
    LET a == IF c < 0 THEN 0 - c ELSE c
    IN  (IF c < 0 THEN "-" ELSE "") \o ToString(a \div 10) \o "." \o ToString(a % 10)

\* the dispatch with a JOBS intent without job_params taken for an unknown one
DispatchParamsOrUnknown(ir) ==
    CASE ir.intent = "PROFILE" -> "profile_progress"
      [] ir.intent = "JOBS" /\ Truthy(ir.job_params) -> "jobs_progress"
      [] OTHER -> "unknown_reply"

\* the dispatch with every intent other than JOBS taken to the profile handler
DispatchProfileByDefault(ir) ==
    CASE ir.intent = "JOBS" ->
            IF ~Truthy(ir.job_params) THEN "jobs_clarify" ELSE "jobs_progress"
      [] OTHER -> "profile_progress"

\* where handle_message goes with a classified intent, up to its next reply
Dispatch(ir) ==
    CASE ir.intent = "PROFILE" -> "profile_progress"
      [] ir.intent = "JOBS" ->
            IF ~Truthy(ir.job_params) THEN "jobs_clarify" ELSE "jobs_progress"
      [] OTHER -> "unknown_reply"

\* the branch without the test of the error
ProfileBranchNoErrorTest(pd) ==
    IF format_profile_response(pd).ok THEN "profile_reply" ELSE "profile_except"

\* where _handle_profile_request goes with the fetched profile_data
ProfileBranch(pd) ==
    IF Truthy(Get(pd, "error", PyNone)) THEN "profile_error_reply"
    ELSE IF format_profile_response(pd).ok THEN "profile_reply"
    ELSE "profile_except"

UserMessages == {"Show my profile", ""}
NoResponse == [kind |-> "none", exc |-> NoExc, function_call |-> PyNone]
NoCalls == [classify_intent |-> 0, get_my_profile |-> 0, search_jobs |-> 0]

\* await reply_text(text): the text is delivered and the handler moves to `next`,
\* or the call raises and the handler moves to `handler` with the error in flight
Send(text, next, handler) ==
    \E delivered \in BOOLEAN :
        IF delivered
        THEN replies' = Append(replies, text) /\ pc' = next /\ exc' = NoExc
        ELSE replies' = replies /\ pc' = handler /\ exc' = ExcSend

\* a user sends a text message; it waits until the application hands it to
\* handle_message
Arrive ==
    /\ pending > 0
    /\ pending' = pending - 1
    /\ queued' = queued + 1
    /\ UNCHANGED <<pc, user_message, response, intent_result, profile_data,
                   jobs_result, exc, replies, log, calls, fmtvars, svcvars>>

\* handle_message is entered with the next waiting text message.  The
\* application runs one handler at a time, and a handler inside
\* classify_intent, get_my_profile or search_jobs (plain calls, not awaited)
\* keeps the event loop, so nothing is entered before the handler is through.
Receive ==
    /\ pc \in {"idle", "done"}
    /\ queued > 0
    /\ queued' = queued - 1
    /\ \E m \in UserMessages :
        /\ user_message' = m
        /\ log' = <<"Received message from 1001: " \o m>>
    /\ pc' = "typing"
    /\ response' = NoResponse
    /\ intent_result' = PyNone
    /\ profile_data' = <<>>
    /\ jobs_result' = <<>>
    /\ exc' = NoExc
    /\ replies' = <<>>
    /\ calls' = NoCalls
    /\ UNCHANGED <<pending, fmtvars, svcvars>>

\* await chat.send_action("typing"), before the try block
SendTyping ==
    /\ pc = "typing"
    /\ \E delivered \in BOOLEAN :
        IF delivered THEN pc' = "classify" /\ exc' = NoExc
        ELSE pc' = "error_handler" /\ exc' = ExcSend
    /\ UNCHANGED <<pending, queued, user_message, response, intent_result, profile_data,
                   jobs_result, replies, log, calls, fmtvars, svcvars>>

\* classify_intent(user_message) is called
ClassifyCall ==
    /\ pc = "classify"
    /\ pc' = "in_classify_intent"
    /\ calls' = [calls EXCEPT !.classify_intent = @ + 1]
    /\ UNCHANGED <<pending, queued, user_message, response, intent_result,
                   profile_data, jobs_result, exc, replies, log, fmtvars, svcvars>>

\* classify_intent returns or raises, then the branch on the intent
Classify ==
    /\ pc = "in_classify_intent"
    /\ \E outcome \in ModelOutcomes :
        LET r == classify_intent(user_message, outcome)
        IN  /\ response' = outcome
            /\ exc' = r.raised
            /\ IF r.raised # NoExc
               THEN /\ pc' = "outer_except"
                    /\ UNCHANGED <<intent_result, log>>
               ELSE /\ pc' = Dispatch(r.result)
                    /\ intent_result' = r.result
                    /\ log' = log \o r.printed
                              \o <<"Classified intent: " \o r.result.intent
                                   \o " (confidence: " \o FloatText(r.result.confidence)
                                   \o ")">>
    /\ UNCHANGED <<pending, queued, user_message, profile_data, jobs_result, replies,
                   calls, fmtvars, svcvars>>

\* _handle_profile_request: the progress reply, before the try block
ProfileProgress ==
    /\ pc = "profile_progress"
    /\ Send(ProgressProfileText, "profile_fetch", "outer_except")
    /\ UNCHANGED <<pending, queued, user_message, response, intent_result, profile_data,
                   jobs_result, log, calls, fmtvars, svcvars>>

\* _handle_profile_request: get_my_profile() is called
ProfileCall ==
    /\ pc = "profile_fetch"
    /\ pc' = "in_get_my_profile"
    /\ calls' = [calls EXCEPT !.get_my_profile = @ + 1]
    /\ UNCHANGED <<pending, queued, user_message, response, intent_result,
                   profile_data, jobs_result, exc, replies, log, fmtvars, svcvars>>

\* _handle_profile_request: get_my_profile() returns, the error test and the
\* formatting
ProfileFetch ==
    /\ pc = "in_get_my_profile"
    /\ \E outcome \in ProfileOutcomes :
        LET pd == get_my_profile(outcome)
        IN  /\ profile_data' = pd
            /\ pc' = ProfileBranch(pd)
            /\ exc' = IF ProfileBranch(pd) = "profile_except"
                      THEN format_profile_response(pd).exc ELSE NoExc
    /\ UNCHANGED <<pending, queued, user_message, response, intent_result, jobs_result,
                   replies, log, calls, fmtvars, svcvars>>

\* _handle_profile_request: the reply carrying the collaborator's error
ProfileErrorReply ==
    /\ pc = "profile_error_reply"
    /\ Send(ProfileErrorText(profile_data), "done", "profile_except")
    /\ UNCHANGED <<pending, queued, user_message, response, intent_result, profile_data,
                   jobs_result, log, calls, fmtvars, svcvars>>

\* _handle_profile_request: the reply carrying the formatted profile
ProfileReply ==
    /\ pc = "profile_reply"
    /\ Send(format_profile_response(profile_data).value, "done", "profile_except")
    /\ UNCHANGED <<pending, queued, user_message, response, intent_result, profile_data,
                   jobs_result, log, calls, fmtvars, svcvars>>

\* _handle_profile_request: the except clause
ProfileExceptReply ==
    /\ pc = "profile_except"
    /\ log' = Append(log, "Error fetching profile: " \o exc)
    /\ Send(ProfileFailedText, "done", "outer_except")
    /\ UNCHANGED <<pending, queued, user_message, response, intent_result, profile_data,
                   jobs_result, calls, fmtvars, svcvars>>

\* _handle_jobs_request: the clarification request when job_params is missing
JobsClarify ==
    /\ pc = "jobs_clarify"
    /\ Send(ClarifyText, "done", "outer_except")
    /\ UNCHANGED <<pending, queued, user_message, response, intent_result, profile_data,
                   jobs_result, log, calls, fmtvars, svcvars>>

\* _handle_jobs_request: the progress reply, before the try block
JobsProgress ==
    /\ pc = "jobs_progress"
    /\ Send(SearchText(intent_result.job_params), "jobs_fetch", "outer_except")
    /\ UNCHANGED <<pending, queued, user_message, response, intent_result, profile_data,
                   jobs_result, log, calls, fmtvars, svcvars>>

\* _handle_jobs_request: search_jobs(...) is called
JobsCall ==
    /\ pc = "jobs_fetch"
    /\ pc' = "in_search_jobs"
    /\ calls' = [calls EXCEPT !.search_jobs = @ + 1]
    /\ UNCHANGED <<pending, queued, user_message, response, intent_result,
                   profile_data, jobs_result, exc, replies, log, fmtvars, svcvars>>

\* _handle_jobs_request: search_jobs(...) returns, and the formatting
JobsFetch ==
    /\ pc = "in_search_jobs"
    /\ \E outcome \in JobsOutcomes :
        LET jp == intent_result.job_params
            r == search_jobs(PyStr(jp.role), jp.location, jp.keywords, outcome)
        IN  /\ jobs_result' = r.result
            /\ log' = log \o r.printed
    /\ pc' = "jobs_reply"
    /\ UNCHANGED <<pending, queued, user_message, response, intent_result, profile_data,
                   exc, replies, calls, fmtvars, svcvars>>

\* _handle_jobs_request: the reply carrying the formatted listings
JobsReply ==
    /\ pc = "jobs_reply"
    /\ Send(format_jobs_response(jobs_result, DefaultLimit), "done", "jobs_except")
    /\ UNCHANGED <<pending, queued, user_message, response, intent_result, profile_data,
                   jobs_result, log, calls, fmtvars, svcvars>>

\* _handle_jobs_request: the except clause
JobsExceptReply ==
    /\ pc = "jobs_except"
    /\ log' = Append(log, "Error searching jobs: " \o exc)
    /\ Send(JobsFailedText, "done", "outer_except")
    /\ UNCHANGED <<pending, queued, user_message, response, intent_result, profile_data,
                   jobs_result, calls, fmtvars, svcvars>>

\* _handle_unknown_request
UnknownReply ==
    /\ pc = "unknown_reply"
    /\ Send(UnknownText, "done", "outer_except")
    /\ UNCHANGED <<pending, queued, user_message, response, intent_result, profile_data,
                   jobs_result, log, calls, fmtvars, svcvars>>

\* handle_message: the except clause of the outer try block
OuterExceptReply ==
    /\ pc = "outer_except"
    /\ log' = Append(log, "Error processing message: " \o exc)
    /\ Send(ApologyText, "done", "error_handler")
    /\ UNCHANGED <<pending, queued, user_message, response, intent_result, profile_data,
                   jobs_result, calls, fmtvars, svcvars>>

\* error_handler: an exception left handle_message
ErrorHandler ==
    /\ pc = "error_handler"
    /\ log' = Append(log, "Update caused error " \o exc)
    /\ pc' = "done"
    /\ exc' = NoExc
    /\ UNCHANGED <<pending, queued, user_message, response, intent_result, profile_data,
                   jobs_result, replies, calls, fmtvars, svcvars>>

Init == BotIdle /\ FmtInit /\ SvcInit

\* the steps of the application: entering the handler and the handler's steps
HandlerStep ==
    \/ Receive
    \/ SendTyping
    \/ ClassifyCall
    \/ Classify
    \/ ProfileProgress
    \/ ProfileCall
    \/ ProfileFetch
    \/ ProfileErrorReply
    \/ ProfileReply
    \/ ProfileExceptReply
    \/ JobsClarify
    \/ JobsProgress
    \/ JobsCall
    \/ JobsFetch
    \/ JobsReply
    \/ JobsExceptReply
    \/ UnknownReply
    \/ OuterExceptReply
    \/ ErrorHandler

Next == Arrive \/ HandlerStep

Spec == Init /\ [][Next]_vars

FormatInit == BotIdle /\ FmtInit /\ SvcInit
FormatNext ==
    \/ CallFormatJobsDefault /\ UNCHANGED <<botvars, svcvars>>
    \/ CallFormatJobs /\ UNCHANGED <<botvars, svcvars>>
    \/ CallFormatProfile /\ UNCHANGED <<botvars, svcvars>>
SpecFormat == FormatInit /\ [][FormatNext]_vars

ServiceInit == BotIdle /\ FmtInit /\ SvcInit
ServiceNext ==
    \/ CallSearchJobs /\ UNCHANGED <<botvars, fmtvars>>
    \/ CallGetMyProfile /\ UNCHANGED <<botvars, fmtvars>>
SpecService == ServiceInit /\ [][ServiceNext]_vars

----------------------------------------------------------------------------
(* Properties of the classifier and of the handler (checked under Spec) *)

\* classify_intent was called for the message being handled
Classified == response.kind # "none"
\* the response carries a function call with non-empty arguments
HasArguments ==
    /\ response.kind = "ok"
    /\ response.function_call.t = "FunctionCall"
    /\ response.function_call.arguments.t = "str"
    /\ response.function_call.arguments.s # ""
ArgumentsDoc == response.function_call.arguments.json
\* a job_params document that fits JobSearchParams
FitsJobSearchParams(jp) ==
    /\ jp.t = "dict"
    /\ "role" \in DOMAIN jp.d /\ jp.d["role"].t = "str"
    /\ "location" \in DOMAIN jp.d => jp.d["location"].t \in {"none", "str"}
    /\ "keywords" \in DOMAIN jp.d => jp.d["keywords"].t \in {"none", "list"}
\* an arguments document that fits IntentResult
FitsIntentResult(doc) ==
    /\ doc.t = "dict"
    /\ "intent" \in DOMAIN doc.d /\ doc.d["intent"].t = "str"
    /\ "confidence" \in DOMAIN doc.d /\ doc.d["confidence"].t = "num"
    /\ "job_params" \in DOMAIN doc.d =>
          \/ doc.d["job_params"].t = "none"
          \/ FitsJobSearchParams(doc.d["job_params"])
ModelCallFailed == response.kind = "raise"
ParsingFailed == HasArguments /\ ArgumentsDoc.t = "absent"
ConstructionFailed ==
    HasArguments /\ ArgumentsDoc.t # "absent" /\ ~FitsIntentResult(ArgumentsDoc)
ClassificationFailed == ModelCallFailed \/ ParsingFailed \/ ConstructionFailed

\* C1: classify_intent always returns a result to the handler, and when the
\* model call, the parsing of the arguments or the construction of the result
\* fails, the result is UNKNOWN with confidence 0.0 and no job_params.
C1_FailureGivesUnknownZero ==
    Classified =>
        /\ intent_result # PyNone
        /\ ~(pc = "outer_except" /\ exc # ExcSend)
        /\ ClassificationFailed =>
              intent_result = [intent |-> "UNKNOWN", confidence |-> 0,
                               job_params |-> PyNone]

C1_Witness ==
    /\ Classified /\ ConstructionFailed
    /\ intent_result.intent = "UNKNOWN" /\ intent_result.confidence = 0
    /\ pc = "unknown_reply"

\* C2: when the model call succeeds without a function call, or with a
\* function call without arguments, the result is UNKNOWN with confidence 0.5,
\* which is never the confidence of the failure path.
C2_NoCallGivesUnknownHalf ==
    Classified =>
        /\ (response.kind = "ok" /\ ~HasArguments) =>
              intent_result = [intent |-> "UNKNOWN", confidence |-> 5,
                               job_params |-> PyNone]
        /\ ClassificationFailed => intent_result.confidence # 5

C2_Witness ==
    /\ Classified
    /\ response.function_call.t = "FunctionCall"
    /\ response.function_call.arguments.t = "str"
    /\ response.function_call.arguments.s = ""
    /\ intent_result.confidence = 5

\* C3 as stated: every result of classify_intent has an intent among PROFILE,
\* JOBS, UNKNOWN and a confidence within [0, 1].
C3_IntentAndConfidenceInRange ==
    Classified =>
        /\ intent_result.intent \in {"PROFILE", "JOBS", "UNKNOWN"}
        /\ 0 <= intent_result.confidence /\ intent_result.confidence <= 10

\* the model supplied a role in the job_params of its arguments
RoleSupplied ==
    /\ HasArguments /\ ArgumentsDoc.t = "dict"
    /\ "job_params" \in DOMAIN ArgumentsDoc.d
    /\ ArgumentsDoc.d["job_params"].t = "dict"
    /\ "role" \in DOMAIN ArgumentsDoc.d["job_params"].d
    /\ ArgumentsDoc.d["job_params"].d["role"].t = "str"

\* C4 as stated: job_params is present exactly when the intent is JOBS and the
\* model supplied a role, and a present job_params has a non-empty role.
C4_ParamsOnlyForJobsWithRole ==
    Classified =>
        /\ (intent_result.job_params # PyNone)
              <=> (intent_result.intent = "JOBS" /\ RoleSupplied)
        /\ intent_result.job_params # PyNone => intent_result.job_params.role # ""

\* a reply_text call of this message raised
SendFailed == exc = ExcSend \/ \E i \in 1..Len(log) : EndsWith(log[i], ExcSend)
ErrorLogged == \E i \in 1..Len(log) : StartsWith(log[i], "Error")
NeedsClarification ==
    Classified /\ intent_result.intent = "JOBS" /\ intent_result.job_params = PyNone

\* C5: for a JOBS result without job_params no collaborator is called, and the
\* handler ends normally with the clarification request as its only reply
\* (replies that the transport fails to deliver aside).
C5_ClarifyWithoutSearch ==
    NeedsClarification =>
        /\ calls.search_jobs = 0 /\ calls.get_my_profile = 0
        /\ jobs_result = <<>>
        /\ ~SendFailed =>
              /\ pc \in {"jobs_clarify", "done"}
              /\ ~ErrorLogged
              /\ pc = "jobs_clarify" => replies = <<>>
              /\ pc = "done" =>
                    /\ Len(replies) = 1
                    /\ StartsWith(replies[1], "[think] I cannot tell which vacancy")

C5_Witness ==
    /\ NeedsClarification /\ pc = "done" /\ ~SendFailed
    /\ replies = <<ClarifyText>>

\* get_my_profile returned a result carrying an error text
CarriesError ==
    /\ calls.get_my_profile > 0
    /\ "error" \in DOMAIN profile_data
    /\ profile_data["error"].t = "str" /\ profile_data["error"].s # ""

\* C6: when the profile fetch returns a result carrying an error, the reply
\* holds the error text verbatim, format_profile_response is not applied, and
\* get_my_profile is called once for the message.
C6_ErrorTextVerbatimNoRetry ==
    /\ calls.get_my_profile <= 1
    /\ CarriesError =>
          /\ calls.get_my_profile = 1
          /\ \A i \in 1..Len(replies) : ~Contains(replies[i], "Your LinkedIn profile")
          /\ ~SendFailed =>
                /\ pc \in {"profile_error_reply", "done"}
                /\ pc = "done" =>
                      /\ Len(replies) = 2
                      /\ Contains(replies[2], ": " \o profile_data["error"].s \o "\n")

C6_Witness ==
    /\ CarriesError /\ pc = "done" /\ ~SendFailed
    /\ profile_data["error"].s = "LinkedIn URL is not set"
    /\ Len(replies) = 2

\* C7 as stated: no reply sent to the user contains the text of an exception.
C7_NoExceptionTextInReplies ==
    \A i \in 1..Len(replies) : \A e \in ExcTexts : ~Contains(replies[i], e)

----------------------------------------------------------------------------
(* Properties of the formatters (checked under SpecFormat) *)

\* the lines of a text, split at its line breaks
Lines(text) ==
    LET nl == {i \in 1..Len(text) : SubSeq(text, i, i) = "\n"}
        n == Cardinality(nl)
        Pos(k) == IF k = 0 THEN 0
                  ELSE IF k = n + 1 THEN Len(text) + 1
                  ELSE CHOOSE p \in nl : Cardinality({q \in nl : q < p}) = k - 1
    IN  [k \in 1..(n + 1) |-> SubSeq(text, Pos(k - 1) + 1, Pos(k) - 1)]

JobsLines == Lines(fmt_out.value)
\* where the numbered entries, the count notes and the hints begin in the output
EntryAt == {i \in 1..Len(JobsLines) : Contains(JobsLines[i], ". [job] ")}
NoteAt == {i \in 1..Len(JobsLines) : StartsWith(JobsLines[i], "Showing the first ")}
HintAt == {i \in 1..Len(JobsLines) : StartsWith(JobsLines[i], "[hint] ")}
StatesCounts(line, shown, total) ==
    /\ Contains(line, " " \o ToString(shown) \o " ")
    /\ Contains(line, " " \o ToString(total) \o ":")
JobsFormatted == fmt_pc = "jobs_done" /\ Len(fmt_jobs) > 0

\* C8 as stated: with more than limit listings, a note stating the shown and the
\* total count comes after the numbered entries; with at most limit listings
\* there is no such note.
C8_NoteTrailsEntries ==
    JobsFormatted =>
        IF Len(fmt_jobs) > fmt_limit
        THEN \E i \in NoteAt :
                /\ \A e \in EntryAt : e < i
                /\ StatesCounts(JobsLines[i], fmt_limit, Len(fmt_jobs))
        ELSE NoteAt = {}

\* C8 amended: with a non-empty list of more than limit listings, one note
\* stating limit and the total count stands directly after the count header and
\* before every numbered entry, and the hint to narrow the query is the last
\* line, after every entry; with at most limit listings neither appears.
C8_NoteLeadsHintTrails ==
    JobsFormatted =>
        IF Len(fmt_jobs) > fmt_limit
        THEN /\ NoteAt = {3}
             /\ StatesCounts(JobsLines[3], fmt_limit, Len(fmt_jobs))
             /\ HintAt = {Len(JobsLines)}
             /\ \A e \in EntryAt : 3 < e /\ e < Len(JobsLines)
        ELSE NoteAt = {} /\ HintAt = {}

C8_Witness ==
    /\ JobsFormatted
    /\ Len(fmt_jobs) = 7 /\ fmt_limit = 5
    /\ Cardinality(EntryAt) = 5
    /\ NoteAt # {}

\* the titles rendered by the numbered entries, in output order
EntryNumbered(i, k, job) ==
    JobsLines[i] = ToString(k) \o ". [job] " \o Str(Get(job.d, "title", PyStr("Untitled")))
NthEntry(k) == CHOOSE i \in EntryAt : Cardinality({e \in EntryAt : e < i}) = k - 1

\* C9 as stated: for a non-empty list and every integer limit, the output is a
\* count header followed by at most limit entries: the first min(limit, len)
\* listings in input order, numbered from 1.
C9_AtMostLimitEntries ==
    JobsFormatted =>
        LET m == Max(0, Min(fmt_limit, Len(fmt_jobs)))
        IN  /\ JobsLines[1] = "[work] Vacancies found: " \o ToString(Len(fmt_jobs))
            /\ Cardinality(EntryAt) = m
            /\ \A k \in 1..m : EntryNumbered(NthEntry(k), k, fmt_jobs[k])

\* the text that marks the line of each key in an entry
FieldMark ==
    [title |-> ". [job] ", company |-> "   Company: ", location |-> "   [pin] ",
     type |-> "   [time] ", description |-> "   [doc] ", url |-> "   [link] "]
\* the lines of the k-th numbered entry, given the lines where entries start:
\* from its title line up to the next entry (or the end of the output)
EntryLines(n, starts, k) ==
    LET Start(j) == CHOOSE i \in starts : Cardinality({e \in starts : e < i}) = j - 1
    IN  Start(k)..(IF k < Cardinality(starts) THEN Start(k + 1) - 1 ELSE n)
\* what a line shows after the mark of key f
Shown(line, f) ==
    LET at == CHOOSE p \in 1..Len(line) :
                  SubSeq(line, p, p + Len(FieldMark[f]) - 1) = FieldMark[f]
    IN  SubSeq(line, at + Len(FieldMark[f]), Len(line))
\* for every numbered entry of the output and every key, the texts the entry
\* shows for that key (none when the entry has no line for it)
EntryFields ==
    LET lines == JobsLines
        starts == {i \in 1..Len(lines) : Contains(lines[i], FieldMark["title"])}
    IN  [k \in 1..Cardinality(starts) |->
            LET mine == EntryLines(Len(lines), starts, k)
            IN  [f \in JobFields |->
                    {Shown(lines[i], f) : i \in {j \in mine : Contains(lines[j], FieldMark[f])}}]]
AbsentFields(job) == JobFields \ DOMAIN job.d

\* C11 as stated: the call returns, and every entry has a line for each of the
\* six keys, an absent key showing a non-empty placeholder text.
C11_AbsentFieldsGetPlaceholders ==
    JobsFormatted =>
        /\ fmt_out.ok
        /\ LET entry == EntryFields
           IN  \A k \in DOMAIN entry : \A f \in AbsentFields(fmt_jobs[k]) :
                   \E text \in entry[k][f] : text # ""

\* C11 amended: the call returns; in every entry an absent title, company or
\* location is shown as its placeholder text, and an absent type, description
\* or url has no line in the entry at all.
C11_PlaceholdersForThreeOmitRest ==
    JobsFormatted =>
        /\ fmt_out.ok
        /\ LET entry == EntryFields
               Placeholder == [title |-> "Untitled", company |-> "Company not specified",
                               location |-> "Location not specified"]
           IN  \A k \in DOMAIN entry :
                   LET absent == AbsentFields(fmt_jobs[k])
                   IN  /\ \A f \in absent \cap {"title", "company", "location"} :
                              entry[k][f] = {Placeholder[f]}
                       /\ \A f \in absent \cap {"type", "description", "url"} :
                              entry[k][f] = {}
                       /\ \A f \in JobFields \ absent : entry[k][f] # {}

C11_Witness ==
    /\ JobsFormatted
    /\ Len(fmt_jobs) = 2
    /\ AbsentFields(fmt_jobs[2]) = {"company", "url"}
    /\ LET entry == EntryFields
       IN  /\ DOMAIN entry = 1..2
           /\ entry[2]["company"] = {"Company not specified"}
           /\ entry[2]["url"] = {}

\* C10: a non-empty summary is rendered as its first 300 characters (all of it
\* when shorter) followed directly by the ellipsis marker, cut or not.
C10_SummaryCutAndMarked ==
    (fmt_pc = "profile_done" /\ fmt_out.ok) =>
        LET summary == Get(fmt_profile, "summary", PyNone)
        IN  (summary.t = "str" /\ summary.s # "") =>
                LET n == IF Len(summary.s) < 300 THEN Len(summary.s) ELSE 300
                IN  Contains(fmt_out.value,
                             "About me:\n" \o SubSeq(summary.s, 1, n) \o "...\n")

C10_Witness ==
    /\ fmt_pc = "profile_done" /\ fmt_out.ok
    /\ "summary" \in DOMAIN fmt_profile
    /\ fmt_profile["summary"].t = "str"
    /\ Len(fmt_profile["summary"].s) > 300
    /\ Contains(fmt_out.value, "...")

----------------------------------------------------------------------------
(* Properties of the profile and job fetch (checked under SpecService) *)

SearchDone == svc_pc = "search_done"
\* the ways a search fails
QueryBuildingRaised == ~svc_query.ok
TransportRaised == svc_outcome.kind = "raise"
StatusNot200 == svc_outcome.kind = "response" /\ svc_outcome.status_code # 200
BodyUnparsable ==
    /\ svc_outcome.kind = "response" /\ svc_outcome.status_code = 200
    /\ svc_outcome.json.t = "absent"
BodyWithoutReply ==
    /\ svc_outcome.kind = "response" /\ svc_outcome.status_code = 200
    /\ svc_outcome.json.t # "absent"
    /\ \/ svc_outcome.json.t # "dict"
       \/ ~Truthy(Get(svc_outcome.json.d, "reply", PyNone))
SearchFailed ==
    \/ QueryBuildingRaised \/ TransportRaised \/ StatusNot200
    \/ BodyUnparsable \/ BodyWithoutReply

\* C12: whatever its arguments, search_jobs raises nothing and returns a list
\* of listings, none of them an error value; on a failure of any kind
\* (building the query, the transport, a status other than 200, a body that
\* is not JSON, a body without a reply) the list is empty.
C12_SearchNeverRaisesEmptyOnFailure ==
    SearchDone =>
        /\ svc_out.raised = NoExc
        /\ \A i \in 1..Len(svc_out.result) :
               svc_out.result[i].t = "dict" /\ "error" \notin DOMAIN svc_out.result[i].d
        /\ SearchFailed => svc_out.result = <<>>

C12_Witness ==
    /\ SearchDone
    /\ QueryBuildingRaised
    /\ svc_args.location = PyNum(7)
    /\ svc_out.raised = NoExc
    /\ svc_out.result = <<>>
    /\ svc_out.printed = <<"Error searching jobs: " \o ExcLower>>

\* the spellings of "remote" the search is exercised with
RemoteSpellings == {"remote", "Remote", "REMOTE", "rEmOtE"}
RemoteModifier == "with the option of remote work"

\* C13: for a location spelling "remote" in any letter case the query built
\* is the one built for "remote" with the same role and keywords, and it
\* carries the remote-work modifier and no location filter; for any other
\* non-empty location it carries the filter naming that location instead.
C13_RemoteInAnyCase ==
    (/\ SearchDone /\ svc_query.ok
     /\ svc_args.location.t = "str" /\ svc_args.location.s # "") =>
        IF svc_args.location.s \in RemoteSpellings
        THEN /\ svc_query
                  = SearchQuery(svc_args.query, PyStr("remote"), svc_args.keywords)
             /\ Contains(svc_query.value, RemoteModifier)
             /\ ~Contains(svc_query.value, "in location ")
        ELSE /\ Contains(svc_query.value, "in location " \o svc_args.location.s)
             /\ ~Contains(svc_query.value, RemoteModifier)

C13_Witness ==
    /\ SearchDone /\ svc_query.ok
    /\ svc_args.location = PyStr("REMOTE")
    /\ svc_args.keywords = PyList(<<PyStr("python"), PyStr("sql")>>)
    /\ svc_query.value = "Find vacancies for the position Python Developer "
                           \o RemoteModifier \o " with skills: python, sql"

ProfileFetched == svc_pc = "profile_done"
\* the fetch did not succeed: the transport raised, the status is not 200, or
\* the response does not set the success flag
FetchNotSucceeded ==
    \/ svc_outcome.kind = "raise"
    \/ svc_outcome.status_code # 200
    \/ /\ svc_outcome.json.t = "dict"
       /\ ~Truthy(Get(svc_outcome.json.d, "success", PyNone))
\* the fetch succeeded: status 200, the success flag set, and a profile that
\* is a mapping (or none sent)
FetchSucceeded ==
    /\ svc_outcome.kind = "response" /\ svc_outcome.status_code = 200
    /\ svc_outcome.json.t = "dict"
    /\ Truthy(Get(svc_outcome.json.d, "success", PyNone))
    /\ Get(svc_outcome.json.d, "profile", PyDict(<<>>)).t = "dict"

\* C14 as stated: get_my_profile raises nothing; when the fetch did not
\* succeed its result has a non-empty error text, empty headline and summary
\* and empty experience and education lists; when the fetch succeeded its
\* result has no error.
C14_FailureCarriesErrorText ==
    ProfileFetched =>
        /\ svc_out.raised = NoExc
        /\ FetchNotSucceeded =>
              /\ "error" \in DOMAIN svc_out.result
              /\ svc_out.result["error"].t = "str"
              /\ svc_out.result["error"].s # ""
              /\ svc_out.result["headline"] = PyStr("")
              /\ svc_out.result["summary"] = PyStr("")
              /\ svc_out.result["experience"] = PyList(<<>>)
              /\ svc_out.result["education"] = PyList(<<>>)
        /\ FetchSucceeded => "error" \notin DOMAIN svc_out.result

----------------------------------------------------------------------------
(* Properties of the scheduling of handlers (checked under Spec) *)

\* the handler is inside one of its three calls to a collaborator
InSlowCall == pc \in {"in_classify_intent", "in_get_my_profile", "in_search_jobs"}

\* C15 as stated: while the handling of one message is inside a slow
\* classification or fetch call, the handler of another message that has been
\* received can start.
C15_OtherHandlersCanStart ==
    (InSlowCall /\ queued > 0) => ENABLED Receive

\* the calls made so far for the message being handled
Fetches == calls.get_my_profile + calls.search_jobs
\* the handler has not reached the call of classify_intent yet
BeforeClassify == pc \in {"idle", "typing", "classify"}
\* send_action("typing") raised, which ends the handling before the try block
TypingFailed == pc \in {"error_handler", "done"} /\ calls.classify_intent = 0
\* the order and the choice of the calls, common to both statements of C16
CallsInOrder ==
    /\ calls.classify_intent <= 1
    /\ Fetches <= 1
    /\ Fetches > 0 =>
          /\ calls.classify_intent = 1 /\ Classified
          /\ pc # "in_classify_intent"
          /\ intent_result # PyNone
    /\ calls.get_my_profile > 0 => intent_result.intent = "PROFILE"
    /\ calls.search_jobs > 0 =>
          intent_result.intent = "JOBS" /\ intent_result.job_params # PyNone
    /\ pc = "in_get_my_profile" => calls = [NoCalls EXCEPT !.classify_intent = 1,
                                                          !.get_my_profile = 1]
    /\ pc = "in_search_jobs" => calls = [NoCalls EXCEPT !.classify_intent = 1,
                                                       !.search_jobs = 1]
    /\ pc = "in_classify_intent" => calls = [NoCalls EXCEPT !.classify_intent = 1]

ReplyFailed == SendFailed /\ ~TypingFailed
\* the progress reply of the path the message takes, if it takes a fetch path
OnProfilePath == intent_result # PyNone /\ intent_result.intent = "PROFILE"
OnJobsPath ==
    /\ intent_result # PyNone
    /\ intent_result.intent = "JOBS" /\ intent_result.job_params # PyNone
\* the replies of a message whose handling is through: one final reply, after
\* one progress reply on the two fetch paths
FinalReplies ==
    CASE intent_result = PyNone -> replies = <<ApologyText>>
      [] OnProfilePath ->
            /\ Len(replies) = 2
            /\ replies[1] = ProgressProfileText
            /\ replies[2] =
                  (IF Truthy(Get(profile_data, "error", PyNone))
                   THEN ProfileErrorText(profile_data)
                   ELSE IF format_profile_response(profile_data).ok
                   THEN format_profile_response(profile_data).value
                   ELSE ProfileFailedText)
      [] OnJobsPath ->
            /\ Len(replies) = 2
            /\ replies[1] = SearchText(intent_result.job_params)
            /\ replies[2] \in {format_jobs_response(jobs_result, DefaultLimit),
                                JobsFailedText}
      [] OTHER -> replies \in {<<ClarifyText>>, <<UnknownText>>}

\* C17 as stated: unless a reply fails to be sent, a message whose handling is
\* through has got exactly one final reply, after exactly one progress reply
\* on the PROFILE and JOBS-with-params paths and no progress reply otherwise;
\* the progress reply is out before the fetch call is made.
C17_OneFinalReplyPerMessage ==
    /\ pc = "in_get_my_profile" => replies = <<ProgressProfileText>>
    /\ pc = "in_search_jobs" => replies = <<SearchText(intent_result.job_params)>>
    /\ (pc = "done" /\ ~ReplyFailed) => FinalReplies

====
